---- MODULE Spec2Model ----
(***************************************************************************)
(* Signalist: the news aggregation (getNews / getGeneralMarketNews of      *)
(* lib/actions/finnhub.actions.ts) and the daily digest batch              *)
(* (sendDailyNewsSummary of lib/inngest/functions.ts).                     *)
(*                                                                         *)
(* Five specifications share the module:                                   *)
(*   SpecNews : one call of getNews, one action per provider fetch;        *)
(*   Spec     : one run of sendDailyNewsSummary, one action per loop       *)
(*              iteration of each of its steps;                            *)
(*   SpecWatchlist : concurrent callers of addToWatchlist and              *)
(*              removeFromWatchlist (lib/actions/watchlist.actions.ts) on  *)
(*              the Watchlist collection, one action per database call.    *)
(*   SpecLookup : one call of getWatchlistSymbolsByEmail on a stored       *)
(*              collection.                                                *)
(*   SpecFetch : one call of fetchJSON on one response of the provider.    *)
(*                                                                         *)
(* Strings that the code inspects (symbols, url, headline) are sequences   *)
(* of one-character strings, so that trim, toUpperCase and the "-" joined  *)
(* deduplication key are computed and not assumed.                         *)
(***************************************************************************)
EXTENDS Integers, Sequences, FiniteSets, TLC

\* ------------------------------------------------------------------ bounds

\* Longest symbol list handed to getNews.
MaxSymbols == 3

\* Longest general-feed response of the provider.
MaxFeedLen == 8

\* ------------------------------------------------------- program constants

\* `const maxRounds = 6`
maxRounds == 6

\* The literal 6 of `allArticles.length >= 6` and of `slice(0, 6)`.
MaxArticles == 6

\* A timestamp the formatter cannot coerce.
Malformed == -1

\* --------------------------------------------------------------- strings

Space == " "

\* String.prototype.toUpperCase, one character.
UpperChar(c) ==
  CASE c = "a" -> "A"
    [] c = "b" -> "B"
    [] OTHER -> c

\* String.prototype.toUpperCase.
ToUpperCase(s) == [i \in 1..Len(s) |-> UpperChar(s[i])]

RECURSIVE TrimStart(_)
TrimStart(s) ==
  IF s = <<>> THEN <<>>
  ELSE IF Head(s) = Space THEN TrimStart(Tail(s)) ELSE s

RECURSIVE TrimEnd(_)
TrimEnd(s) ==
  IF s = <<>> THEN <<>>
  ELSE IF s[Len(s)] = Space THEN TrimEnd(SubSeq(s, 1, Len(s) - 1)) ELSE s

\* String.prototype.trim.
Trim(s) == TrimEnd(TrimStart(s))

\* A variant of the normalisation that forgets to drop the empty strings.
CleanSymbolsKeepEmpty(list) == [i \in 1..Len(list) |-> ToUpperCase(Trim(list[i]))]

\* symbols.map((s) => s.trim().toUpperCase()).filter(Boolean)
CleanSymbols(list) ==
  LET mapped == [i \in 1..Len(list) |-> ToUpperCase(Trim(list[i]))]
      Truthy(s) == s # <<>>
  IN SelectSeq(mapped, Truthy)

Min(a, b) == IF a < b THEN a ELSE b
Max(a, b) == IF a > b THEN a ELSE b

\* -------------------------------------------------------------- articles

\* A provider record (RawNewsArticle): id 0, url <<>> and headline <<>> stand
\* for a missing field.
Raw(id, url, headline, datetime) ==
  [id |-> id, url |-> url, headline |-> headline, datetime |-> datetime]

\* validate(raw): false if headline, url or the id is missing or empty.
validateArticle(article) ==
  /\ article.headline # <<>>
  /\ article.url # <<>>
  /\ article.id # 0

\* format(raw, isTopicNews, symbol, ordinal): maps the fields, coerces the
\* timestamp (a malformed one becomes 0) and stamps the origin symbol of a
\* topic article; <<>> is the absent symbol.
formatArticle(article, isCompanyNews, symbol, index) ==
  [id |-> article.id,
   url |-> article.url,
   headline |-> article.headline,
   datetime |-> IF article.datetime = Malformed THEN 0 ELSE article.datetime,
   related |-> IF isCompanyNews THEN symbol ELSE <<>>,
   isCompanyNews |-> isCompanyNews]

\* `${article.id}-${article.url}-${article.headline}`: the numeral of the id
\* is one token, the rest is joined character by character.
DedupeKey(article) ==
  <<article.id>> \o <<"-">> \o article.url \o <<"-">> \o article.headline

\* data.find((article) => validateArticle(article)): <<>> when none is found,
\* else the one-element sequence holding the first valid record.
RECURSIVE FindValid(_)
FindValid(data) ==
  IF data = <<>> THEN <<>>
  ELSE IF validateArticle(Head(data)) THEN <<Head(data)>>
       ELSE FindValid(Tail(data))

\* data.filter((article) => validateArticle(article))
FilterValid(data) == SelectSeq(data, validateArticle)

\* A variant of the seen-set filter that forgets a key when it drops a record
\* for it.
RECURSIVE DedupeFromForgetful(_, _)
DedupeFromForgetful(articles, seen) ==
  IF articles = <<>> THEN <<>>
  ELSE LET key == DedupeKey(Head(articles))
       IN IF key \in seen THEN DedupeFromForgetful(Tail(articles), seen \ {key})
          ELSE <<Head(articles)>> \o DedupeFromForgetful(Tail(articles), seen \cup {key})

\* The seen-set filter of getGeneralMarketNews: the first record of each key
\* is kept, in order.
RECURSIVE DedupeFrom(_, _)
DedupeFrom(articles, seen) ==
  IF articles = <<>> THEN <<>>
  ELSE LET key == DedupeKey(Head(articles))
       IN IF key \in seen THEN DedupeFrom(Tail(articles), seen)
          ELSE <<Head(articles)>> \o DedupeFrom(Tail(articles), seen \cup {key})

\* A variant of the filter that remembers only the key of the record before.
RECURSIVE DedupeAdjacentFrom(_, _)
DedupeAdjacentFrom(articles, last) ==
  IF articles = <<>> THEN <<>>
  ELSE LET key == DedupeKey(Head(articles))
       IN IF <<key>> = last THEN DedupeAdjacentFrom(Tail(articles), last)
          ELSE <<Head(articles)>> \o DedupeAdjacentFrom(Tail(articles), <<key>>)

DedupeAdjacent(articles) == DedupeAdjacentFrom(articles, <<>>)

\* const seen = new Set<string>(); validArticles.filter(...)
Deduplicate(articles) == DedupeFrom(articles, {})

\* A variant of slice that does not truncate.
SliceAll(s) == s

\* deduplicated.slice(0, 6)
SliceTop(s) == SubSeq(s, 1, IF Len(s) < MaxArticles THEN Len(s) ELSE MaxArticles)

\* Insert x into a sequence sorted non-increasing by datetime, after every
\* element that does not sort after it (Array.prototype.sort is stable).
RECURSIVE InsertDesc(_, _)
InsertDesc(x, s) ==
  IF s = <<>> THEN <<x>>
  ELSE IF Head(s).datetime >= x.datetime THEN <<Head(s)>> \o InsertDesc(x, Tail(s))
       ELSE <<x>> \o s

RECURSIVE SortFrom(_, _)
SortFrom(todo, acc) ==
  IF todo = <<>> THEN acc ELSE SortFrom(Tail(todo), InsertDesc(Head(todo), acc))

\* A variant of the final step that returns the batch unsorted.
SortSkipped(articles) == articles

\* allArticles.sort((a, b) => b.datetime - a.datetime)
SortByDatetimeDesc(articles) == SortFrom(articles, <<>>)

\* ------------------------------------------------------ inputs of getNews

\* The symbols a caller may hand over: a blank string, which trims to the
\* empty string, and three spellings of two tickers.
RawSymbols == { <<" ">>, <<"a">>, <<" ", "A", " ">>, <<"b">> }

RECURSIVE SeqsUpTo(_, _)
SeqsUpTo(S, n) ==
  IF n = 0 THEN { <<>> }
  ELSE LET shorter == SeqsUpTo(S, n - 1)
       IN shorter \cup { Append(q, x) : q \in { r \in shorter : Len(r) = n - 1 }, x \in S }

\* `symbols?: string[]`: absent, or a list of at most MaxSymbols symbols.
SymbolInputs ==
  { [given |-> FALSE, list |-> <<>>] }
    \cup { [given |-> TRUE, list |-> l] : l \in SeqsUpTo(RawSymbols, MaxSymbols) }

\* The normalised symbols that can occur.
CleanUniverse == { ToUpperCase(Trim(r)) : r \in RawSymbols } \ { <<>> }

SymbolTag(symbol) == IF symbol = <<"A">> THEN 1 ELSE 2

\* What the provider holds for one symbol over the date window: only an
\* incomplete record, an incomplete one before a valid one with a malformed
\* timestamp, or three valid ones.
CompanyFeeds(symbol) ==
  LET t == 10 * SymbolTag(symbol)
      V(n, dt) == Raw(t + n, <<"u">>, <<"h">>, dt)
      bad == Raw(t + 9, <<"u">>, <<>>, 1)
  IN { <<bad>>,
       <<bad, V(2, Malformed)>>,
       <<V(1, 3), V(2, 1), V(3, 2)>> }

\* The general feed is described record by record: a record with a new id, a
\* record repeating the key of the first record with an id, however far back
\* that one lies, or an incomplete record.
FeedKinds == { "new", "dup", "bad" }

RECURSIVE GeneralFeedFrom(_, _, _, _)
GeneralFeedFrom(kinds, pos, lastId, ascending) ==
  IF pos > Len(kinds) THEN <<>>
  ELSE LET dt == IF ascending THEN pos ELSE Len(kinds) + 1 - pos
           id == IF kinds[pos] = "new" THEN lastId + 1 ELSE Min(lastId, 1)
           newest == IF kinds[pos] = "new" THEN lastId + 1 ELSE lastId
           rec == CASE kinds[pos] = "new" -> Raw(id, <<"u">>, <<"h">>, dt)
                    [] kinds[pos] = "dup" -> Raw(id, <<"u">>, <<"h">>, dt)
                    [] OTHER -> Raw(id, <<>>, <<"h">>, dt)
       IN <<rec>> \o GeneralFeedFrom(kinds, pos + 1, newest, ascending)

\* The general-feed responses: every description of at most MaxFeedLen
\* records with timestamps rising along the response, and the descriptions of
\* at most two records with timestamps falling.
GeneralFeeds ==
  { GeneralFeedFrom(kinds, 1, 0, TRUE) : kinds \in SeqsUpTo(FeedKinds, MaxFeedLen) }
    \cup { GeneralFeedFrom(kinds, 1, 0, FALSE) : kinds \in SeqsUpTo(FeedKinds, 2) }

\* ------------------------------------------------------------------ state

VARIABLES
  symbols,        \* getNews: the argument, [given, list]
  companyNews,    \* provider: the company-news records it holds per symbol
  npc,            \* getNews: "idle", "start", "loop", "general", "done", "threw"
  cleanSymbols,   \* getNews: cleanSymbols
  round,          \* getNews: round of the outer loop
  symIdx,         \* getNews: position of the inner loop in cleanSymbols
  allArticles,    \* getNews: allArticles
  result,         \* getNews: the list returned
  topicCalls,     \* number of company-news fetches issued
  generalCalls,   \* number of general-news fetches issued
  lastFetch,      \* the latest fetchJSON call: endpoint, symbol, cache, ok,
                  \* the requests it made, the error it threw,
                  \* and the number of articles it added to the batch
  generalData,    \* getGeneralMarketNews: the response of the general feed
  round1Yield,    \* every company-news fetch of round 0 so far gave an article
  noFetchError,   \* no company-news fetch has failed so far
  fetchCall       \* fetchJSON on its own: arguments, response, outcome

VARIABLES
  bpc,                 \* sendDailyNewsSummary: the step it is in, or the
                       \* call it is awaiting for good
  users,               \* sendDailyNewsSummary: users
  idx,                 \* position of the loop of the current step
  newsForUsers,        \* sendDailyNewsSummary: newsForUsers
  summariesWithUsers,  \* sendDailyNewsSummary: summariesWithUsers
  emailsSent,          \* the value the send-news-emails step returns
  runResult,           \* what the function returns
  fetchLog,            \* per user: how the lookup and getNews ended
  inferCalls,          \* the step.ai.infer calls: user, newsData, outcome
  emails               \* the sendNewsSummaryEmail calls: email, newsContent, ok

newsVars ==
  <<symbols, companyNews, npc, cleanSymbols, round, symIdx, allArticles,
    result, topicCalls, generalCalls, lastFetch, generalData, round1Yield,
    noFetchError, fetchCall>>

batchVars ==
  <<bpc, users, idx, newsForUsers, summariesWithUsers, emailsSent, runResult,
    fetchLog, inferCalls, emails>>

VARIABLES
  watchlist,           \* the documents of the Watchlist collection, in order
  calls,               \* per caller: where its addToWatchlist call stands
  lastOutcome,         \* how the latest finished call ended
  lookupCall           \* getWatchlistSymbolsByEmail: what it met and how it ended

watchVars == <<watchlist, calls, lastOutcome, lookupCall>>

vars == <<newsVars, batchVars, watchVars>>

\* ------------------------------------------------ the watchlist collection

\* Callers whose server actions run at the same time.
MaxCallers == 2

\* The signed-in users (session.user.id).
WatchUsers == { 1, 2 }

\* The symbols a caller hands over: two spellings of one ticker, another
\* ticker, and a blank string.
WatchSymbols == { <<"a">>, <<"A", " ">>, <<"b">>, <<" ">> }

NoCall == [pc |-> "idle", userId |-> 0, symbol |-> <<>>]

NoLookup == [pc |-> "idle", kind |-> "none", userId |-> 0, symbols |-> <<>>]

\* The collection at rest, while another machine is followed on its own.
WatchIdle ==
  /\ watchlist = <<>>
  /\ calls = [c \in 1..MaxCallers |-> NoCall]
  /\ lastOutcome = "none"
  /\ lookupCall = NoLookup

\* The setters of the schema's symbol path, `uppercase: true, trim: true`,
\* which Mongoose runs on a document's value and on a filter's value alike.
SymbolSetters(symbol) == Trim(ToUpperCase(symbol))

\* The positions of the documents a filter { userId, symbol } matches.
Matching(docs, userId, symbol) ==
  { i \in 1..Len(docs) :
      docs[i].userId = userId /\ docs[i].symbol = SymbolSetters(symbol) }

\* A variant of the schema without the unique compound index.
NoUniqueIndex(docs, userId, symbol) == FALSE

\* WatchlistSchema.index({ userId: 1, symbol: 1 }, { unique: true }): whether
\* the insert of a document is rejected with a duplicate-key error.
DuplicateKey(docs, userId, symbol) == Matching(docs, userId, symbol) # {}

\* The sequence without its element at position i.
RemoveAt(docs, i) == SubSeq(docs, 1, i - 1) \o SubSeq(docs, i + 1, Len(docs))

\* The HTTP statuses the provider answers with.
Statuses == { 200, 204, 304, 404, 429, 500 }

\* The two of them that are followed through a whole call of getNews.
NewsStatuses == { 200, 500 }

\* response.ok: the status is in the range 200-299.
ResponseOk(status) == status >= 200 /\ status <= 299

NoError == [status |-> 0, url |-> "none"]

\* A variant of fetchJSON that asks a second time after a non-success
\* response.
RequestsMadeWithRetry(status) == IF ResponseOk(status) THEN 1 ELSE 2

\* The upstream requests of one fetchJSON call: one `await fetch(url,
\* options)`, in no loop.
RequestsMade(status) == 1

\* `throw new Error(`HTTP error! status: ${response.status}, url: ${url}`)` on
\* `!response.ok`: the status and the endpoint the error carries.
FetchError(status, endpoint) ==
  IF ResponseOk(status) THEN NoError ELSE [status |-> status, url |-> endpoint]

NoFetchCall ==
  [pc |-> "idle", url |-> "none", revalidate |-> [given |-> FALSE, seconds |-> 0],
   status |-> 0, body |-> <<>>, requests |-> 0, cache |-> "none",
   error |-> NoError, data |-> <<>>]

NoFetch ==
  [endpoint |-> "none", symbol |-> <<>>, cache |-> "none", ok |-> FALSE, added |-> 0,
   requests |-> 0, error |-> NoError]

\* fetchJSON(url, revalidateSeconds): the request options chosen from the
\* second argument.
CachePolicy(revalidateGiven) == IF revalidateGiven THEN "force-cache" ELSE "no-store"

\* The digest run at rest, while one call of getNews is followed on its own.
BatchIdle ==
  /\ bpc = "idle"
  /\ users = <<>>
  /\ idx = 1
  /\ newsForUsers = <<>>
  /\ summariesWithUsers = <<>>
  /\ emailsSent = 0
  /\ runResult = [returned |-> FALSE, success |-> FALSE, processed |-> 0]
  /\ fetchLog = <<>>
  /\ inferCalls = <<>>
  /\ emails = <<>>

InitNews ==
  /\ BatchIdle
  /\ WatchIdle
  /\ symbols \in SymbolInputs
  /\ companyNews \in [CleanUniverse ->
                         { <<>> } \cup UNION { CompanyFeeds(c) : c \in CleanUniverse }]
  /\ \A c \in CleanUniverse :
       companyNews[c] \in IF symbols.given /\ \E i \in 1..Len(symbols.list) :
                                                 ToUpperCase(Trim(symbols.list[i])) = c
                            THEN CompanyFeeds(c) ELSE { <<>> }
  /\ npc = "start"
  /\ cleanSymbols = <<>>
  /\ round = 0
  /\ symIdx = 1
  /\ allArticles = <<>>
  /\ result = <<>>
  /\ topicCalls = 0
  /\ generalCalls = 0
  /\ lastFetch = NoFetch
  /\ generalData = <<>>
  /\ round1Yield = TRUE
  /\ noFetchError = TRUE
  /\ fetchCall = NoFetchCall

\* `symbols && symbols.length > 0` and `cleanSymbols.length === 0`: whether
\* the call runs the round-robin loop.
TakesSymbolPath(input) ==
  /\ input.given
  /\ Len(input.list) > 0
  /\ Len(CleanSymbols(input.list)) # 0

\* getNews up to its first fetch: the symbols are normalised and the path is
\* chosen.
GetNewsStart ==
  /\ npc = "start"
  /\ cleanSymbols' = IF symbols.given /\ Len(symbols.list) > 0
                       THEN CleanSymbols(symbols.list) ELSE <<>>
  /\ npc' = IF TakesSymbolPath(symbols) THEN "loop" ELSE "general"
  /\ UNCHANGED <<symbols, companyNews, round, symIdx, allArticles, result,
                 topicCalls, generalCalls, lastFetch, generalData, round1Yield,
                 noFetchError, fetchCall>>
  /\ UNCHANGED <<batchVars, watchVars>>

\* The provider's answer to company-news for a symbol: an empty array for a
\* symbol it does not know.
CompanyNewsFor(symbol) ==
  IF symbol \in DOMAIN companyNews THEN companyNews[symbol] ELSE <<>>

\* A variant of the loop test without the two `allArticles.length >= 6`
\* breaks.
LoopEndsAfterRoundsOnly(articles, r, i, k) == i >= k /\ r + 1 >= maxRounds

\* A variant of the loop test that runs one round more (`round <= maxRounds`).
LoopEndsOneRoundLate(articles, r, i, k) ==
  \/ Len(articles) >= MaxArticles
  \/ (i >= k /\ r + 1 > maxRounds)

\* Whether both loops are over after the iteration for symbol i of round r:
\* `if (allArticles.length >= 6) break` of the inner and of the outer loop, and
\* `round < maxRounds`.
LoopEnds(articles, r, i, k) ==
  \/ Len(articles) >= MaxArticles
  \/ (i >= k /\ r + 1 >= maxRounds)

\* A variant of fetchJSON that parses the body whatever the status.
FetchedDataIgnoringStatus(ok, data) == data

\* What the try block of the inner loop works with: the parsed response, or
\* nothing, because fetchJSON throws on `!response.ok` and on a failed
\* request, and the catch block of the iteration only logs.
FetchedData(ok, data) == IF ok THEN data ELSE <<>>

\* One iteration of the inner loop: the company-news fetch for the current
\* symbol, which fails or returns the provider's records, the push of the
\* first valid record, and the loop tests up to the next fetch or, when the
\* loops are over, the sort and the return.
FetchSymbol ==
  /\ npc = "loop"
  /\ \E status \in NewsStatuses :
       LET ok == ResponseOk(status)
           symbol == cleanSymbols[symIdx]
           data == CompanyNewsFor(symbol)
           validArticle == FindValid(FetchedData(ok, data))
           pushed ==
             IF validArticle # <<>>
               THEN Append(allArticles,
                           formatArticle(validArticle[1], TRUE, symbol, Len(allArticles)))
               ELSE allArticles
           over == LoopEnds(pushed, round, symIdx, Len(cleanSymbols))
       IN /\ lastFetch' = [endpoint |-> "company-news", symbol |-> symbol,
                           cache |-> CachePolicy(FALSE), ok |-> ok,
                           added |-> Len(pushed) - Len(allArticles),
                           requests |-> RequestsMade(status),
                           error |-> FetchError(status, "company-news")]
          /\ topicCalls' = topicCalls + 1
          /\ round1Yield' = (round1Yield /\ (round = 0 => validArticle # <<>>))
          /\ noFetchError' = (noFetchError /\ ok)
          /\ IF over
               THEN /\ allArticles' = SortByDatetimeDesc(pushed)
                    /\ result' = SortByDatetimeDesc(pushed)
                    /\ npc' = "done"
                    /\ UNCHANGED <<round, symIdx>>
               ELSE /\ allArticles' = pushed
                    /\ round' = IF symIdx < Len(cleanSymbols) THEN round ELSE round + 1
                    /\ symIdx' = IF symIdx < Len(cleanSymbols) THEN symIdx + 1 ELSE 1
                    /\ UNCHANGED <<result, npc>>
  /\ UNCHANGED <<symbols, companyNews, cleanSymbols, generalCalls, generalData,
                 fetchCall>>
  /\ UNCHANGED <<batchVars, watchVars>>

\* What getGeneralMarketNews returns for a response: the valid records,
\* deduplicated, the first six, formatted.
GeneralResult(data) ==
  LET topArticles == SliceTop(Deduplicate(FilterValid(data)))
  IN [i \in 1..Len(topArticles) |-> formatArticle(topArticles[i], FALSE, <<>>, i - 1)]

\* getGeneralMarketNews: one fetch of the general feed, which fails (the error
\* is rethrown by getNews) or returns a response.
GeneralNews ==
  /\ npc = "general"
  /\ generalCalls' = generalCalls + 1
  /\ \/ /\ \E status \in { t \in NewsStatuses : ~ResponseOk(t) } :
             lastFetch' = [endpoint |-> "news", symbol |-> <<>>,
                           cache |-> CachePolicy(FALSE), ok |-> FALSE, added |-> 0,
                           requests |-> RequestsMade(status),
                           error |-> FetchError(status, "news")]
        /\ npc' = "threw"
        /\ UNCHANGED <<result, generalData>>
     \/ \E data \in GeneralFeeds :
          /\ lastFetch' = [endpoint |-> "news", symbol |-> <<>>,
                           cache |-> CachePolicy(FALSE), ok |-> TRUE,
                           added |-> Len(GeneralResult(data)),
                           requests |-> RequestsMade(200),
                           error |-> FetchError(200, "news")]
          /\ generalData' = data
          /\ result' = GeneralResult(data)
          /\ npc' = "done"
  /\ UNCHANGED <<symbols, companyNews, cleanSymbols, round, symIdx, allArticles,
                 topicCalls, round1Yield, noFetchError, fetchCall>>
  /\ UNCHANGED <<batchVars, watchVars>>

NextNews == GetNewsStart \/ FetchSymbol \/ GeneralNews

SpecNews == InitNews /\ [][NextNews]_vars

\* --------------------------------------------------------------- fetchJSON

\* `revalidateSeconds?: number`: absent, 0, or an hour.
RevalidateInputs ==
  { [given |-> FALSE, seconds |-> 0],
    [given |-> TRUE, seconds |-> 0],
    [given |-> TRUE, seconds |-> 3600] }

\* `revalidateSeconds ? ... : ...`: absent and 0 are both falsy.
RevalidateTruthy(revalidate) == revalidate.given /\ revalidate.seconds # 0

\* The bodies a response carries.
ResponseBodies == { <<>> } \cup CompanyFeeds(<<"A">>)

\* One call of fetchJSON about to be made: its arguments, and the response
\* the provider will give.
FetchCalls ==
  { [NoFetchCall EXCEPT !.url = u, !.revalidate = r, !.status = t, !.body = b] :
      u \in {"company-news", "news"}, r \in RevalidateInputs,
      t \in Statuses, b \in ResponseBodies }

InitFetch ==
  /\ BatchIdle
  /\ WatchIdle
  /\ symbols = [given |-> FALSE, list |-> <<>>]
  /\ companyNews = [c \in CleanUniverse |-> <<>>]
  /\ npc = "idle"
  /\ cleanSymbols = <<>>
  /\ round = 0
  /\ symIdx = 1
  /\ allArticles = <<>>
  /\ result = <<>>
  /\ topicCalls = 0
  /\ generalCalls = 0
  /\ lastFetch = NoFetch
  /\ generalData = <<>>
  /\ round1Yield = TRUE
  /\ noFetchError = TRUE
  /\ fetchCall \in FetchCalls

\* fetchJSON(url, revalidateSeconds): the options, the request, the test of
\* response.ok, and the parsed body or the error.
FetchJSON ==
  /\ fetchCall.pc = "idle"
  /\ fetchCall' =
       [fetchCall EXCEPT
          !.pc = IF ResponseOk(fetchCall.status) THEN "returned" ELSE "threw",
          !.requests = RequestsMade(fetchCall.status),
          !.cache = CachePolicy(RevalidateTruthy(fetchCall.revalidate)),
          !.error = FetchError(fetchCall.status, fetchCall.url),
          !.data = FetchedData(ResponseOk(fetchCall.status), fetchCall.body)]
  /\ UNCHANGED <<symbols, companyNews, npc, cleanSymbols, round, symIdx, allArticles,
                 result, topicCalls, generalCalls, lastFetch, generalData, round1Yield,
                 noFetchError>>
  /\ UNCHANGED <<batchVars, watchVars>>

NextFetch == FetchJSON

SpecFetch == InitFetch /\ [][NextFetch]_vars

\* ------------------------------------------------- sendDailyNewsSummary

\* Most recipients getAllUsersForNewsEmail returns.
MaxUsers == 3

\* getNews at rest, while the digest run is followed on its own.
NewsIdle ==
  /\ symbols = [given |-> FALSE, list |-> <<>>]
  /\ companyNews = [c \in CleanUniverse |-> <<>>]
  /\ npc = "idle"
  /\ cleanSymbols = <<>>
  /\ round = 0
  /\ symIdx = 1
  /\ allArticles = <<>>
  /\ result = <<>>
  /\ topicCalls = 0
  /\ generalCalls = 0
  /\ lastFetch = NoFetch
  /\ generalData = <<>>
  /\ round1Yield = TRUE
  /\ noFetchError = TRUE
  /\ fetchCall = NoFetchCall

Init ==
  /\ NewsIdle
  /\ WatchIdle
  /\ bpc = "get-all-users"
  /\ users = <<>>
  /\ idx = 1
  /\ newsForUsers = <<>>
  /\ summariesWithUsers = <<>>
  /\ emailsSent = 0
  /\ runResult = [returned |-> FALSE, success |-> FALSE, processed |-> 0]
  /\ fetchLog = <<>>
  /\ inferCalls = <<>>
  /\ emails = <<>>

\* A variant of the run without its guard on the user list.
NoUsersFoundIgnored(list) == FALSE

\* `!users || users.length === 0`: there is nobody to send to.
NoUsersFound(list) == Len(list) = 0

\* Step 1, get-all-users: the user store faults (the step throws and the run
\* fails), or returns a list; `!users || users.length === 0` ends the run with
\* success false.
GetAllUsers ==
  /\ bpc = "get-all-users"
  /\ \/ /\ bpc' = "failed"
        /\ UNCHANGED <<users, runResult>>
     \/ \E n \in 0..MaxUsers :
          /\ users' = [i \in 1..n |-> i]
          /\ IF NoUsersFound(users')
               THEN /\ bpc' = "done"
                    /\ runResult' = [returned |-> TRUE, success |-> FALSE, processed |-> 0]
               ELSE /\ bpc' = "fetch"
                    /\ UNCHANGED runResult
  /\ UNCHANGED <<idx, newsForUsers, summariesWithUsers, emailsSent, fetchLog,
                 inferCalls, emails>>
  /\ UNCHANGED <<newsVars, watchVars>>

\* The outcomes of getWatchlistSymbolsByEmail: the database connection is
\* missing, no user has the email, a lookup step throws, or the watchlist of
\* the user is found.
LookupOutcomes ==
  { [kind |-> "no-db", watchlist |-> <<>>],
    [kind |-> "no-user", watchlist |-> <<>>],
    [kind |-> "threw", watchlist |-> <<>>],
    [kind |-> "found", watchlist |-> <<>>],
    [kind |-> "found", watchlist |-> << <<"A">> >>] }

\* A variant of getWatchlistSymbolsByEmail without its try/catch: an error
\* thrown by a lookup step reaches the caller.
getWatchlistSymbolsByEmailUncaught(lookup) ==
  [raised |-> lookup.kind = "threw",
   symbols |-> IF lookup.kind = "found" THEN lookup.watchlist ELSE <<>>]

\* getWatchlistSymbolsByEmail: whether the call raises, and the list it
\* returns: the symbols of the watchlist when it is found; [] from
\* `if (!db)`, from `if (!user || !user._id)` and from the catch block.
getWatchlistSymbolsByEmail(lookup) ==
  [raised |-> FALSE,
   symbols |-> IF lookup.kind = "found" THEN lookup.watchlist ELSE <<>>]

\* getNews(symbols.length > 0 ? symbols : undefined), as the digest run sees
\* it: on the general path the fetch fails and getNews throws, or a list is
\* returned; on the symbol path a list is returned.
NewsOutcomes(symbolList) ==
  IF Len(symbolList) > 0
    THEN { [threw |-> FALSE, path |-> "symbol", news |-> <<>>],
           [threw |-> FALSE, path |-> "symbol",
            news |-> <<formatArticle(Raw(11, <<"u">>, <<"h">>, 2), TRUE, symbolList[1], 0)>>] }
    ELSE { [threw |-> TRUE, path |-> "general", news |-> <<>>],
           [threw |-> FALSE, path |-> "general", news |-> <<>>],
           [threw |-> FALSE, path |-> "general",
            news |-> <<formatArticle(Raw(1, <<"u">>, <<"h">>, 1), FALSE, <<>>, 0)>>] }

\* A variant of the try block of the fetch loop that takes an empty symbol
\* list for a failure and makes no call of getNews.
FetchOutcomesNeedSymbols(answer) ==
  IF answer.raised \/ answer.symbols = <<>>
    THEN { [threw |-> TRUE, path |-> "none", news |-> <<>>] }
    ELSE NewsOutcomes(answer.symbols)

\* What the try block of the fetch loop meets after the lookup: an error the
\* lookup raised, or an outcome of getNews for the symbols it returned.
FetchOutcomes(answer) ==
  IF answer.raised
    THEN { [threw |-> TRUE, path |-> "none", news |-> <<>>] }
    ELSE NewsOutcomes(answer.symbols)

\* A variant of the catch block of the fetch loop that records nothing for
\* the user whose fetch threw.
FetchEntryDroppedOnError(results, user, outcome) ==
  IF outcome.threw THEN results ELSE Append(results, [user |-> user, news |-> outcome.news])

\* results.push({ user, news }) of the try block and
\* results.push({ user, news: [] }) of the catch block.
FetchEntry(results, user, outcome) ==
  IF outcome.threw
    THEN Append(results, [user |-> user, news |-> <<>>])
    ELSE Append(results, [user |-> user, news |-> outcome.news])

\* A variant of the catch block of the fetch loop that leaves the loop.
AfterFetchAbort(i, threw) == IF threw THEN Len(users) + 1 ELSE i + 1

\* The loop position after the fetch iteration for user i: the catch block
\* records the user and the loop goes on with the next user.
AfterFetch(i, threw) == i + 1

\* Step 2, fetch-news-for-users: one iteration of the loop over users.
FetchNewsForUser ==
  /\ bpc = "fetch"
  /\ \E lookup \in LookupOutcomes :
       \E outcome \in FetchOutcomes(getWatchlistSymbolsByEmail(lookup)) :
         /\ newsForUsers' = FetchEntry(newsForUsers, users[idx], outcome)
         /\ fetchLog' = Append(fetchLog,
                               [user |-> users[idx],
                                lookupFailed |-> lookup.kind # "found",
                                path |-> outcome.path,
                                threw |-> outcome.threw])
         /\ IF AfterFetch(idx, outcome.threw) <= Len(users)
              THEN idx' = AfterFetch(idx, outcome.threw) /\ UNCHANGED bpc
              ELSE idx' = 1 /\ bpc' = "summarize"
  /\ UNCHANGED <<users, summariesWithUsers, emailsSent, runResult, inferCalls, emails>>
  /\ UNCHANGED <<newsVars, watchVars>>

\* JSON.stringify(news.map(...)): the fields of each article that are handed
\* to the model, in order.
NewsData(news) ==
  [i \in 1..Len(news) |->
     [headline |-> news[i].headline, url |-> news[i].url, related |-> news[i].related]]

Fallback == "<p>No news summary available at this time.</p>"

\* A variant of the fallback that carries the empty text forward.
SummaryHtmlNoFallback(response, newsData) ==
  IF response = "text" THEN <<"digest", newsData>> ELSE <<>>

\* `(part && "text" in part ? part.text : null) || "<p>No news ...</p>"`: the
\* text of the response, which is written from the prompt, or the fallback.
SummaryHtml(response, newsData) ==
  IF response = "text" THEN <<"digest", newsData>> ELSE <<Fallback>>

\* A variant of the catch block of the summarize loop that leaves the loop.
AfterSummarizeBreak(i, threw) == IF threw THEN Len(newsForUsers) + 1 ELSE i + 1

\* The loop position after the iteration for entry i: the catch block falls
\* through to the next entry.
AfterSummarize(i, threw) == i + 1

\* Step 4, send-news-emails, with no summary to send, and the return of the
\* function.
FinishRun(summaries) ==
  /\ emailsSent' = Len(summaries)
  /\ runResult' = [returned |-> TRUE, success |-> TRUE, processed |-> Len(users)]
  /\ bpc' = "done"

\* A variant of the summarize loop without its guard on empty news.
SummarizeCalledAlways(news) == TRUE

\* `if (news.length === 0) { ...; continue; }`: whether the iteration reaches
\* step.ai.infer.
SummarizeCalled(news) == Len(news) # 0

\* A variant of the summarize loop that reads the news of the first entry
\* for every user.
EntryWithFirstNews(entries, i) == [user |-> entries[i].user, news |-> entries[1].news]

\* `for (const { user, news } of newsForUsers)`: the user and the news of one
\* iteration come from the same entry.
SummarizeEntry(entries, i) == entries[i]

\* Step 3: one iteration of the loop over newsForUsers. An entry without
\* news is passed over; for the others step.ai.infer throws, answers without
\* text, or answers with text.
SummarizeUser ==
  /\ bpc = "summarize"
  /\ idx <= Len(newsForUsers)
  /\ LET entry == SummarizeEntry(newsForUsers, idx)
     IN \E response \in {"threw", "empty", "text"} :
          LET called == SummarizeCalled(entry.news)
              threw == called /\ response = "threw"
              summaries ==
                IF called /\ ~threw
                  THEN Append(summariesWithUsers,
                              [user |-> entry.user,
                               summary |-> SummaryHtml(response, NewsData(entry.news))])
                  ELSE summariesWithUsers
              next == AfterSummarize(idx, threw)
          IN /\ (~called => response = "empty")
             /\ inferCalls' = IF called
                                THEN Append(inferCalls,
                                            [user |-> entry.user,
                                             newsData |-> NewsData(entry.news),
                                             outcome |-> response])
                                ELSE inferCalls
             /\ summariesWithUsers' = summaries
             /\ IF next <= Len(newsForUsers)
                  THEN /\ idx' = next
                       /\ UNCHANGED <<bpc, emailsSent, runResult>>
                  ELSE /\ idx' = 1
                       /\ IF summaries = <<>>
                            THEN FinishRun(summaries)
                            ELSE bpc' = "send" /\ UNCHANGED <<emailsSent, runResult>>
  /\ UNCHANGED <<users, newsForUsers, fetchLog, emails>>
  /\ UNCHANGED <<newsVars, watchVars>>

\* A variant of the catch block of the send loop that leaves the loop.
AfterSendBreak(i, ok) == IF ok THEN i + 1 ELSE Len(summariesWithUsers) + 1

\* The loop position after the send iteration for summary i: the catch block
\* logs the error and the loop goes on with the next summary.
AfterSend(i, ok) == i + 1

\* Step 4, send-news-emails: one iteration of the loop over
\* summariesWithUsers; sendNewsSummaryEmail succeeds or throws, and after the
\* last iteration the step and the function return.
SendNewsEmail ==
  /\ bpc = "send"
  /\ idx <= Len(summariesWithUsers)
  /\ \E ok \in BOOLEAN :
       /\ emails' = Append(emails, [user |-> summariesWithUsers[idx].user,
                                    newsContent |-> summariesWithUsers[idx].summary,
                                    ok |-> ok])
       /\ IF AfterSend(idx, ok) <= Len(summariesWithUsers)
            THEN idx' = AfterSend(idx, ok) /\ UNCHANGED <<bpc, emailsSent, runResult>>
            ELSE idx' = idx /\ FinishRun(summariesWithUsers)
  /\ UNCHANGED <<users, newsForUsers, summariesWithUsers, fetchLog, inferCalls>>
  /\ UNCHANGED <<newsVars, watchVars>>

\* An upstream call that never answers: the provider fetch inside getNews
\* (`await fetch(url, options)`, no signal and no timer), step.ai.infer for an
\* entry with news, or sendNewsSummaryEmail. None of the three awaits is
\* raced against a deadline, so the iteration never gets past it.
UpstreamNeverResponds ==
  /\ \/ bpc = "fetch"
     \/ bpc = "summarize" /\ idx <= Len(newsForUsers)
                           /\ SummarizeCalled(newsForUsers[idx].news)
     \/ bpc = "send" /\ idx <= Len(summariesWithUsers)
  /\ bpc' = CASE bpc = "fetch" -> "awaiting-fetch"
             [] bpc = "summarize" -> "awaiting-infer"
             [] OTHER -> "awaiting-send"
  /\ UNCHANGED <<users, idx, newsForUsers, summariesWithUsers, emailsSent, runResult,
                 fetchLog, inferCalls, emails>>
  /\ UNCHANGED <<newsVars, watchVars>>

Next ==
  \/ GetAllUsers
  \/ FetchNewsForUser
  \/ SummarizeUser
  \/ SendNewsEmail
  \/ UpstreamNeverResponds

Spec == Init /\ [][Next]_vars

\* --------------------------------- addToWatchlist / removeFromWatchlist

InitWatchlist ==
  /\ NewsIdle
  /\ BatchIdle
  /\ WatchIdle

\* addToWatchlist up to the existence check, for a signed-in user:
\* Watchlist.findOne({ userId, symbol: symbol.toUpperCase() }) finds the stock
\* and the call returns 'Stock already in watchlist', or finds nothing and the
\* call goes on to save.
AddCheck ==
  \E c \in 1..MaxCallers, userId \in WatchUsers, symbol \in WatchSymbols :
    /\ calls[c].pc = "idle"
    /\ IF Matching(watchlist, userId, ToUpperCase(symbol)) # {}
         THEN /\ lastOutcome' = "already"
              /\ UNCHANGED calls
         ELSE /\ calls' = [calls EXCEPT ![c] =
                             [pc |-> "checked", userId |-> userId, symbol |-> symbol]]
              /\ UNCHANGED lastOutcome
    /\ UNCHANGED <<watchlist, lookupCall>>
    /\ UNCHANGED <<newsVars, batchVars>>

\* The rest of addToWatchlist: new Watchlist({ ... }) and newItem.save(). The
\* save fails validation when the symbol is empty after the setters
\* (`required: true`), is rejected by the unique index, or inserts the
\* document; either failure is caught and rethrown as 'Failed to add stock to
\* watchlist'.
AddSave ==
  \E c \in 1..MaxCallers :
    /\ calls[c].pc = "checked"
    /\ LET userId == calls[c].userId
           symbol == SymbolSetters(ToUpperCase(calls[c].symbol))
       IN IF symbol = <<>>
            THEN /\ lastOutcome' = "invalid"
                 /\ UNCHANGED watchlist
            ELSE IF DuplicateKey(watchlist, userId, symbol)
                   THEN /\ lastOutcome' = "duplicate-key"
                        /\ UNCHANGED watchlist
                   ELSE /\ lastOutcome' = "added"
                        /\ watchlist' = Append(watchlist,
                                               [userId |-> userId, symbol |-> symbol])
    /\ calls' = [calls EXCEPT ![c] = NoCall]
    /\ UNCHANGED lookupCall
    /\ UNCHANGED <<newsVars, batchVars>>

\* removeFromWatchlist for a signed-in user:
\* Watchlist.deleteOne({ userId, symbol: symbol.toUpperCase() }) deletes the
\* first document that matches, if any.
RemoveFromWatchlist ==
  \E userId \in WatchUsers, symbol \in WatchSymbols :
    LET found == Matching(watchlist, userId, ToUpperCase(symbol))
    IN /\ watchlist' = IF found = {} THEN watchlist
                       ELSE RemoveAt(watchlist, CHOOSE i \in found : \A j \in found : i <= j)
       /\ lastOutcome' = "removed"
       /\ UNCHANGED <<calls, lookupCall>>
       /\ UNCHANGED <<newsVars, batchVars>>

NextWatchlist == AddCheck \/ AddSave \/ RemoveFromWatchlist

SpecWatchlist == InitWatchlist /\ [][NextWatchlist]_vars

\* ------------------------------------------- getWatchlistSymbolsByEmail

\* Most documents the collection holds when the lookup runs.
MaxStored == 3

\* The documents that can be stored: the symbol as the schema setters leave
\* it.
StoredDocs == { [userId |-> u, symbol |-> y] : u \in WatchUsers, y \in CleanUniverse }

\* The collections of at most MaxStored documents the unique index allows.
StoredCollections ==
  { docs \in SeqsUpTo(StoredDocs, MaxStored) :
      \A i, j \in 1..Len(docs) : docs[i] = docs[j] => i = j }

\* Watchlist.find({ userId }, { symbol: 1, _id: 0 }).lean() and
\* watchlistItems.map((item) => item.symbol).
RECURSIVE FindSymbols(_, _)
FindSymbols(docs, userId) ==
  IF docs = <<>> THEN <<>>
  ELSE IF Head(docs).userId = userId
         THEN <<Head(docs).symbol>> \o FindSymbols(Tail(docs), userId)
         ELSE FindSymbols(Tail(docs), userId)

InitLookup ==
  /\ NewsIdle
  /\ BatchIdle
  /\ watchlist \in StoredCollections
  /\ calls = [c \in 1..MaxCallers |-> NoCall]
  /\ lastOutcome = "none"
  /\ lookupCall = NoLookup

\* One call of getWatchlistSymbolsByEmail on the collection: the connection
\* has no db, no user has the email, a step throws, or the user is found and
\* the watchlist is read.
LookupSymbols ==
  /\ lookupCall.pc = "idle"
  /\ \E kind \in {"no-db", "no-user", "threw", "found"}, userId \in WatchUsers :
       LET answer == getWatchlistSymbolsByEmail(
                       [kind |-> kind, watchlist |-> FindSymbols(watchlist, userId)])
       IN lookupCall' = [pc |-> IF answer.raised THEN "raised" ELSE "returned",
                         kind |-> kind,
                         userId |-> IF kind = "found" THEN userId ELSE 0,
                         symbols |-> answer.symbols]
  /\ UNCHANGED <<watchlist, calls, lastOutcome>>
  /\ UNCHANGED <<newsVars, batchVars>>

NextLookup == LookupSymbols

SpecLookup == InitLookup /\ [][NextLookup]_vars

\* ------------------------------------------------- properties of getNews

\* The call has returned.
Returned == npc = "done"

\* The call ran the round-robin loop.
OnSymbolPath == Len(cleanSymbols) > 0

\* The size k of the symbol list handed over (0 when it is absent).
ListSize == IF symbols.given THEN Len(symbols.list) ELSE 0

\* The list is absent, empty, or holds only blank strings; stated on the
\* characters, not through the normalisation of the code.
NoUsableSymbol ==
  \/ ~symbols.given
  \/ \A i \in 1..Len(symbols.list) :
       \A j \in 1..Len(symbols.list[i]) : symbols.list[i][j] = Space

IsSortedDesc(articles) ==
  \A i \in 1..Len(articles) - 1 : articles[i].datetime >= articles[i + 1].datetime

DistinctKeys(articles) ==
  \A i, j \in 1..Len(articles) :
    i # j => <<articles[i].id, articles[i].url, articles[i].headline>>
               # <<articles[j].id, articles[j].url, articles[j].headline>>

\* C1: the list getNews returns, and the batch while it is built, never holds
\* more than 6 articles, on the symbol path and on the general path.
C1_AtMostSix == Len(result) <= 6 /\ Len(allArticles) <= 6

\* A general-feed call has returned a full batch of 6 articles.
C1_Witness == Returned /\ generalCalls = 1 /\ Len(result) = 6

\* C2: the list getNews returns is sorted non-increasing by datetime, on the
\* general path as well as on the symbol path.
C2_SortedDescending == Returned => IsSortedDesc(result)

\* C3: no two articles of the returned list share the deduplication key
\* (id, url, headline).
C3_NoSharedKey == Returned => DistinctKeys(result)

\* The distinct valid records the provider holds for the symbols asked for.
OfferedValid(symbol) ==
  { CompanyNewsFor(symbol)[i] : i \in { j \in 1..Len(CompanyNewsFor(symbol)) :
                                          validateArticle(CompanyNewsFor(symbol)[j]) } }

OfferedTotal ==
  Cardinality(UNION { OfferedValid(cleanSymbols[i]) : i \in 1..Len(cleanSymbols) })

ContributedBy(symbol, articles) ==
  Cardinality({ i \in 1..Len(articles) : articles[i].related = symbol })

\* C4: on the symbol path, when every fetch succeeded and the provider offers
\* n < 6 distinct valid articles in total, the returned list holds exactly n
\* articles and no symbol contributes more articles than the provider has for
\* it.
C4_ExactlyOffered ==
  (Returned /\ OnSymbolPath /\ noFetchError /\ OfferedTotal < 6)
    => /\ Len(result) = OfferedTotal
       /\ \A i \in 1..Len(cleanSymbols) :
            ContributedBy(cleanSymbols[i], result)
              <= Cardinality(OfferedValid(cleanSymbols[i]))

\* C5 as stated: for a symbol list of size k, at most 6*k provider calls are
\* issued in total.
C5_AtMostSixKCalls == topicCalls + generalCalls <= 6 * ListSize

\* C5 as amended: at most 6*k company-news calls are issued, and at most
\* max(6*k, 1) provider calls in total, the one call of the general path
\* included.
C5_AtMostSixKTopicCalls ==
  /\ topicCalls <= 6 * ListSize
  /\ topicCalls + generalCalls <= Max(6 * ListSize, 1)

\* A call for three symbols has issued all 18 company-news fetches.
C5_Witness == Returned /\ ListSize = 3 /\ topicCalls = 18

DistinctOrigins(articles) ==
  Cardinality({ articles[i].related : i \in 1..Len(articles) })

DistinctSymbols == Cardinality({ cleanSymbols[i] : i \in 1..Len(cleanSymbols) })

\* C6: for a list of pairwise different symbols, when every symbol yields a
\* valid article in round 1, a symbol adds a second article to the batch only
\* when at least min(k, 6) distinct origin symbols already have one, k being
\* the number of distinct normalised symbols.
C6_RoundRobinFairness ==
  [][ ( /\ npc = "loop"
        /\ \A i, j \in 1..Len(symbols.list) : i # j => symbols.list[i] # symbols.list[j]
        /\ \A i \in 1..Len(cleanSymbols) : FindValid(CompanyNewsFor(cleanSymbols[i])) # <<>>
        /\ round1Yield'
        /\ Len(allArticles') = Len(allArticles) + 1
        /\ ContributedBy(cleanSymbols[symIdx], allArticles) >= 1 )
      => DistinctOrigins(allArticles) >= Min(DistinctSymbols, 6) ]_vars

\* C7: a symbol list that is absent, empty or blank takes the general path:
\* no company-news call is ever issued, the loop is never entered, and the
\* call ends after exactly one general-feed fetch.
C7_NoSymbolsGeneralPath ==
  NoUsableSymbol
    => /\ topicCalls = 0
       /\ npc # "loop"
       /\ (npc \in {"done", "threw"} => generalCalls = 1)

\* A list holding only blank strings has been answered from the general feed.
C7_Witness ==
  /\ Returned
  /\ symbols.given
  /\ Len(symbols.list) > 0
  /\ NoUsableSymbol
  /\ generalCalls = 1
  /\ lastFetch.endpoint = "news"

\* ---------------------------------------- properties of the digest run

RunDone == bpc = "done" /\ runResult.success

FetchThrewFor(u) == \E i \in 1..Len(fetchLog) : fetchLog[i].user = u /\ fetchLog[i].threw

InferOutcomeFor(u, outcome) ==
  \E i \in 1..Len(inferCalls) : inferCalls[i].user = u /\ inferCalls[i].outcome = outcome

HasNews(u) ==
  \E i \in 1..Len(newsForUsers) : newsForUsers[i].user = u /\ newsForUsers[i].news # <<>>

HasSummary(u) == \E i \in 1..Len(summariesWithUsers) : summariesWithUsers[i].user = u

EmailAttempted(u) == \E i \in 1..Len(emails) : emails[i].user = u

EmailDelivered(u) == \E i \in 1..Len(emails) : emails[i].user = u /\ emails[i].ok

UserSet == { users[i] : i \in 1..Len(users) }

\* C8: every recipient gets an entry of the fetch step, in list order,
\* whichever recipients fail in the fetch, summarize or send step: while the
\* fetch loop runs it has one entry per recipient passed, and from its end on
\* it has one per recipient; the run reports all of them as processed.
C8_EveryRecipientAttempted ==
  /\ bpc = "fetch" => Len(newsForUsers) = idx - 1
  /\ bpc \in {"summarize", "send", "done"} => Len(newsForUsers) = Len(users)
  /\ \A i \in 1..Len(newsForUsers) : newsForUsers[i].user = users[i]
  /\ (runResult.returned /\ runResult.success) => runResult.processed = Len(users)

\* A run over three recipients has ended with a failed fetch, a failed
\* summarization and a failed dispatch in it, and three fetch entries.
C8_Witness ==
  /\ RunDone
  /\ Len(users) = 3
  /\ Len(newsForUsers) = 3
  /\ \E u \in UserSet : FetchThrewFor(u)
  /\ \E u \in UserSet : InferOutcomeFor(u, "threw")
  /\ \E u \in UserSet : EmailAttempted(u) /\ ~EmailDelivered(u)

\* C9: a recipient whose summarization call failed has no summary and gets no
\* dispatch; at the end of the run every other recipient with at least one
\* article has a summary and a dispatch call, and the send step reports one
\* email per summary.
C9_SummarizeFailureIsolated ==
  /\ \A u \in UserSet :
       InferOutcomeFor(u, "threw") => ~HasSummary(u) /\ ~EmailAttempted(u)
  /\ RunDone =>
       /\ \A u \in UserSet :
            (HasNews(u) /\ ~InferOutcomeFor(u, "threw"))
              => HasSummary(u) /\ EmailAttempted(u)
       /\ emailsSent = Cardinality({ u \in UserSet :
                                       HasNews(u) /\ ~InferOutcomeFor(u, "threw") })

\* Three recipients with news, the summarization of the second failed, and
\* the first and the third received their digest: 2 summaries, 2 sent.
C9_Witness ==
  /\ RunDone
  /\ Len(users) = 3
  /\ \A u \in UserSet : HasNews(u)
  /\ InferOutcomeFor(2, "threw")
  /\ EmailDelivered(1) /\ EmailDelivered(3) /\ ~EmailAttempted(2)
  /\ Len(summariesWithUsers) = 2
  /\ emailsSent = 2

\* C10 as stated: a recipient whose summarization call answered without text
\* has no summary carried forward and gets no dispatch.
C10_EmptyResponseSkipped ==
  \A u \in UserSet :
    InferOutcomeFor(u, "empty") => ~HasSummary(u) /\ ~EmailAttempted(u)

\* C10 as amended: a recipient whose summarization call answered without text
\* carries the fixed fallback text forward as the summary, and by the end of
\* the run the dispatch has been called for them with that text.
C10_EmptyResponseGetsFallback ==
  \A u \in UserSet :
    InferOutcomeFor(u, "empty") =>
      /\ \E i \in 1..Len(summariesWithUsers) :
           /\ summariesWithUsers[i].user = u
           /\ summariesWithUsers[i].summary = <<Fallback>>
      /\ RunDone => \E i \in 1..Len(emails) :
                      emails[i].user = u /\ emails[i].newsContent = <<Fallback>>

\* A run has ended in which a recipient whose summarization answered without
\* text was sent the fallback text.
C10_Witness ==
  /\ RunDone
  /\ \E u \in UserSet :
       /\ InferOutcomeFor(u, "empty")
       /\ \E i \in 1..Len(emails) :
            emails[i].user = u /\ emails[i].newsContent = <<Fallback>> /\ emails[i].ok

\* C11: in the dispatch phase every recipient that has a summary receives a
\* dispatch attempt, in list order: the attempts made so far are the first
\* summaries of the list, one each, a failed attempt included, and when the
\* run ends every summary has had its attempt.
C11_EveryDispatchAttempted ==
  /\ Len(emails) <= Len(summariesWithUsers)
  /\ \A i \in 1..Len(emails) :
       /\ emails[i].user = summariesWithUsers[i].user
       /\ emails[i].newsContent = summariesWithUsers[i].summary
  /\ bpc = "send" => Len(emails) = idx - 1
  /\ RunDone => Len(emails) = Len(summariesWithUsers)

\* Three summaries; the dispatch for the first failed and the two after it
\* were attempted all the same, the second failing too.
C11_Witness ==
  /\ RunDone
  /\ Len(summariesWithUsers) = 3
  /\ Len(emails) = 3
  /\ ~emails[1].ok /\ ~emails[2].ok /\ emails[3].ok

\* C12: a failure while fetching news for one recipient is absorbed: the
\* recipient is recorded with zero articles, the error does not fail the
\* run, and the fetch loop goes on with the recipients after it until every
\* recipient has been fetched for.
C12_FetchFailureAbsorbed ==
  /\ \A i \in 1..Len(fetchLog) :
       fetchLog[i].threw =>
         /\ i <= Len(newsForUsers)
         /\ newsForUsers[i].user = fetchLog[i].user
         /\ newsForUsers[i].news = <<>>
  /\ fetchLog # <<>> => bpc # "failed"
  /\ bpc = "fetch" => Len(fetchLog) = idx - 1
  /\ bpc \in {"summarize", "send"} \/ RunDone => Len(fetchLog) = Len(users)

\* The fetch for the first of three recipients threw, the two after it were
\* fetched for, the last of them with news, and the run ended.
C12_Witness ==
  /\ RunDone
  /\ Len(users) = 3
  /\ FetchThrewFor(1) /\ ~FetchThrewFor(2)
  /\ newsForUsers[1].news = <<>>
  /\ HasNews(3)

\* C13: when the symbol list is non-empty but every per-symbol fetch has
\* been exhausted without any article, getNews falls back to the general
\* feed instead of returning an empty batch: a call that ran the round-robin
\* loop and collected nothing has issued a general-feed request.
C13_ExhaustedFallsBackToGeneral ==
  (Returned /\ OnSymbolPath /\ allArticles = <<>>) => generalCalls >= 1

\* The fields the deduplication key is made of.
KeyFields(article) == <<article.id, article.url, article.headline>>

\* The positions of the response that hold a valid record whose key fields
\* occur at no earlier position.
FirstOfKey(data) ==
  { i \in 1..Len(data) :
      /\ validateArticle(data[i])
      /\ \A j \in 1..(i - 1) : KeyFields(data[j]) # KeyFields(data[i]) }

\* The number of positions of S up to i.
RankIn(S, i) == Cardinality({ j \in S : j <= i })

C15_DedupeIdempotent ==
  LET once == Deduplicate(generalData)
      onceValid == Deduplicate(FilterValid(generalData))
  IN /\ Deduplicate(once) = once
     /\ Deduplicate(onceValid) = onceValid

\* A response was deduplicated in which one key occurred three times or more
\* among other records: the filter removed two records at least and kept
\* two at least.
C15_Witness ==
  /\ Returned /\ generalCalls = 1
  /\ Cardinality({ i \in 1..Len(generalData) :
                     KeyFields(generalData[i]) = KeyFields(generalData[1]) }) >= 3
  /\ Len(Deduplicate(generalData)) + 2 <= Len(generalData)
  /\ Len(Deduplicate(generalData)) >= 2

\* C18: on the symbol path a failed provider call for one symbol in one
\* round is skipped: it adds no article and does not abort the call; the
\* loop goes on at the next symbol or round, one fetch per position, so a
\* call that returns fewer than 6 articles has issued all 6 fetches for
\* every symbol.
C18_FailedFetchSkipped ==
  /\ (lastFetch.endpoint = "company-news" /\ ~lastFetch.ok) =>
       /\ lastFetch.added = 0
       /\ npc \in {"loop", "done"}
       /\ npc = "done" => topicCalls = maxRounds * Len(cleanSymbols)
  /\ npc = "loop" => topicCalls = round * Len(cleanSymbols) + symIdx - 1
  /\ (Returned /\ OnSymbolPath /\ Len(result) < 6) =>
       topicCalls = maxRounds * Len(cleanSymbols)

\* A call for two symbols or more has returned with articles although a
\* fetch of the first round had failed, after all 6 rounds were run.
C18_Witness ==
  /\ Returned /\ OnSymbolPath
  /\ Len(cleanSymbols) >= 2
  /\ ~noFetchError /\ ~round1Yield
  /\ result # <<>> /\ Len(result) < 6
  /\ topicCalls = maxRounds * Len(cleanSymbols)

\* ----------------------------------------- properties of the watchlist

\* C16: after any interleaving of addToWatchlist and removeFromWatchlist
\* calls, two concurrent addToWatchlist calls for the same user and symbol
\* that both passed the existence check included, the watchlist holds at
\* most one entry per (userId, symbol).
C16_OneEntryPerUserAndSymbol ==
  \A i, j \in 1..Len(watchlist) :
    (watchlist[i].userId = watchlist[j].userId
       /\ watchlist[i].symbol = watchlist[j].symbol) => i = j

\* Two addToWatchlist calls for one user and one stock had both passed the
\* existence check; the first saved, and the save of the second has just been
\* rejected by the unique index: the entry is there once.
C16_Witness ==
  /\ lastOutcome = "duplicate-key"
  /\ Cardinality({ i \in 1..Len(watchlist) :
                     watchlist[i].userId = 1 /\ watchlist[i].symbol = <<"A">> }) = 1
  /\ Len(watchlist) = 2

\* ------------------------------------- properties of the digest run, 2

\* C17: getWatchlistSymbolsByEmail never raises: when the database
\* connection is missing, when no user has the email, or when a lookup step
\* throws, the call returns the empty list; when the user is found it returns
\* the symbols of their documents.
C17_LookupNeverRaises ==
  /\ lookupCall.pc # "raised"
  /\ lookupCall.pc = "returned" =>
       IF lookupCall.kind = "found"
         THEN lookupCall.symbols = FindSymbols(watchlist, lookupCall.userId)
         ELSE lookupCall.symbols = <<>>

\* A lookup step threw while the collection held documents, and the call
\* returned the empty list.
C17_Witness ==
  /\ lookupCall.pc = "returned"
  /\ lookupCall.kind = "threw"
  /\ Len(watchlist) >= 2
  /\ lookupCall.symbols = <<>>

\* The run is over: the function has returned, or get-all-users threw.
RunEnded == bpc \in {"done", "failed"}

\* C19: no operation blocks indefinitely: a run that has not ended can
\* always take a further step, because an upstream call that never answers
\* is cut off by a deadline and handled as an error.
C19_NoCallBlocksForever == RunEnded \/ ENABLED Next

\* The fetch for u ended without an error and gave one article or more.
FetchedWithNews(u) ==
  \E i \in 1..Len(fetchLog) :
    /\ fetchLog[i].user = u /\ ~fetchLog[i].threw
    /\ i <= Len(newsForUsers) /\ newsForUsers[i].user = u /\ newsForUsers[i].news # <<>>

InferCalledFor(u) == \E i \in 1..Len(inferCalls) : inferCalls[i].user = u

\* Summarization is called for a recipient only after the fetch phase is over
\* and their fetch gave one article or more.
SummarizeOnlyAfterFetch ==
  /\ inferCalls # <<>> => Len(newsForUsers) = Len(users) /\ bpc \notin {"fetch", "awaiting-fetch"}
  /\ \A u \in UserSet : InferCalledFor(u) => FetchedWithNews(u)

\* The dispatch phase starts only when the summarize loop is over.
DispatchOnlyAfterSummarize ==
  emails # <<>> => bpc \in {"send", "awaiting-send", "done"}

\* C20 as stated, with success of the summarization meaning that it produced
\* the summary text: summarization only after a fetch with one article or
\* more, dispatch only after a summarization that gave text, and no later
\* phase for a recipient with zero articles or a failed phase.
C20_OnlySuccessesPassedOn ==
  /\ SummarizeOnlyAfterFetch
  /\ DispatchOnlyAfterSummarize
  /\ \A u \in UserSet : EmailAttempted(u) => InferOutcomeFor(u, "text")

\* C20 as amended: summarization is called for a recipient only after their
\* fetch completed with one article or more; dispatch is called only after
\* their summarization call returned without an error, with text or, without
\* text, with the fallback text as the summary; a recipient whose fetch threw
\* or gave zero articles, or whose summarization threw, is never passed to a
\* later phase.
C20_OnlyReturnedPassedOn ==
  /\ SummarizeOnlyAfterFetch
  /\ DispatchOnlyAfterSummarize
  /\ \A u \in UserSet :
       /\ EmailAttempted(u) =>
            /\ InferOutcomeFor(u, "text") \/ InferOutcomeFor(u, "empty")
            /\ HasSummary(u)
       /\ HasSummary(u) => InferCalledFor(u) /\ ~InferOutcomeFor(u, "threw")
       /\ ~FetchedWithNews(u) => ~InferCalledFor(u) /\ ~HasSummary(u) /\ ~EmailAttempted(u)
       /\ InferOutcomeFor(u, "threw") => ~HasSummary(u) /\ ~EmailAttempted(u)

\* A run has ended in which the first recipient had zero articles and the
\* summarization of the second threw, neither being passed on, while the
\* third, whose summarization answered without text, was dispatched to.
C20_Witness ==
  /\ RunDone
  /\ Len(users) = 3
  /\ ~FetchThrewFor(1) /\ ~HasNews(1) /\ ~InferCalledFor(1) /\ ~EmailAttempted(1)
  /\ InferOutcomeFor(2, "threw") /\ ~EmailAttempted(2)
  /\ InferOutcomeFor(3, "empty") /\ EmailAttempted(3)

\* ------------------------------------------- properties of getNews, 2

\* C21: once the batch holds 6 articles the aggregator issues no further
\* provider call: a company-news fetch is pending only while the batch holds
\* fewer than 6, and a batch of 6 means the call has returned, the fetch that
\* added the sixth article being the last one issued.
C21_NoFetchAfterSix ==
  /\ npc = "loop" => Len(allArticles) < 6
  /\ (OnSymbolPath /\ Len(allArticles) >= 6) =>
       /\ npc = "done"
       /\ generalCalls = 0
       /\ lastFetch.endpoint = "company-news" /\ lastFetch.ok /\ lastFetch.added = 1

\* Three symbols, one fetch of the first round without an article: the sixth
\* article came with the seventh fetch, the first of the third round, and the
\* two other symbols of that round and the three rounds after it were not
\* fetched.
C21_Witness ==
  /\ Returned /\ OnSymbolPath
  /\ Len(cleanSymbols) = 3
  /\ Len(result) = 6
  /\ ~round1Yield
  /\ topicCalls = 7

\* The positions of cleanSymbols fetched so far in the current round (in the
\* last round, once the call has returned).
FetchedInRound ==
  IF npc = "loop" THEN 1..(symIdx - 1)
  ELSE IF Returned /\ OnSymbolPath THEN 1..symIdx ELSE {}

\* C22: in each round at most one topic-news fetch is issued per distinct
\* normalised symbol: the fetches of a round are for pairwise different
\* symbols, so input symbols that are equal after trim and uppercase count as
\* one, and a call never issues more than 6 fetches per distinct symbol.
C22_OneFetchPerSymbolPerRound ==
  /\ \A i, j \in FetchedInRound : i # j => cleanSymbols[i] # cleanSymbols[j]
  /\ topicCalls <= maxRounds * DistinctSymbols

C24_GeneralCacheableTopicFresh ==
  /\ lastFetch.endpoint = "news" => lastFetch.cache = "force-cache"
  /\ lastFetch.endpoint = "company-news" => lastFetch.cache = "no-store"

\* The dispatch calls of the run that succeeded.
Delivered == { i \in 1..Len(emails) : emails[i].ok }

\* C25: the counts a finished run reports are ordered, summarized <= attempted
\* and sent <= summarized, and a failed dispatch is recorded: emailsSent is
\* the number of recipients whose dispatch call succeeded.
C25_SentCountsSuccessesOnly ==
  RunDone =>
    /\ Len(summariesWithUsers) <= runResult.processed
    /\ emailsSent <= Len(summariesWithUsers)
    /\ emailsSent = Cardinality(Delivered)

\* C26: when the user list cannot be obtained, because the user store
\* faults or returns nothing, the run ends at once: nobody is processed, no
\* fetch, summarize or dispatch call is made, and the run does not report
\* success: it fails, or it returns with success false.
C26_NoRecipientsNoCalls ==
  (bpc # "get-all-users" /\ users = <<>>) =>
    /\ bpc \in {"failed", "done"}
    /\ bpc = "done" => runResult.returned
    /\ ~runResult.success
    /\ runResult.processed = 0
    /\ newsForUsers = <<>> /\ fetchLog = <<>>
    /\ inferCalls = <<>> /\ summariesWithUsers = <<>>
    /\ emails = <<>> /\ emailsSent = 0

\* The user store returned an empty list and the run returned success false
\* without a single call.
C26_Witness ==
  /\ bpc = "done" /\ users = <<>>
  /\ runResult = [returned |-> TRUE, success |-> FALSE, processed |-> 0]
  /\ fetchLog = <<>> /\ inferCalls = <<>> /\ emails = <<>>

\* The articles the fetch step recorded for u.
OwnNews(u) ==
  LET i == CHOOSE j \in 1..Len(newsForUsers) : newsForUsers[j].user = u
  IN newsForUsers[i].news

\* The answer of the summarization call made for u.
OwnInferOutcome(u) ==
  LET i == CHOOSE j \in 1..Len(inferCalls) : inferCalls[j].user = u
  IN inferCalls[i].outcome

\* C27: what is summarized for and sent to a recipient is a function of that
\* recipient's own articles and of the answer to their own summarization
\* call, whatever the other recipients' symbols, articles and failures are:
\* the fetch step records one entry per recipient, the summarization input is
\* made of the recipient's own entry, the text sent is the digest of that
\* input or the fallback, and in a finished run whether the two calls were
\* made for a recipient depends on their own entry and answer only.
C27_OwnBatchOnly ==
  /\ \A i \in 1..Len(newsForUsers) :
       newsForUsers[i].user = users[i] /\ fetchLog[i].user = users[i]
  /\ \A i \in 1..Len(inferCalls) :
       /\ inferCalls[i].newsData = NewsData(OwnNews(inferCalls[i].user))
       /\ \A j \in 1..Len(inferCalls) : inferCalls[j].user = inferCalls[i].user => j = i
  /\ \A i \in 1..Len(emails) :
       /\ InferCalledFor(emails[i].user)
       /\ emails[i].newsContent
            = IF OwnInferOutcome(emails[i].user) = "text"
                THEN <<"digest", NewsData(OwnNews(emails[i].user))>>
                ELSE <<Fallback>>
       /\ \A j \in 1..Len(emails) : emails[j].user = emails[i].user => j = i
  /\ RunDone =>
       \A u \in UserSet :
         /\ InferCalledFor(u) <=> OwnNews(u) # <<>>
         /\ EmailAttempted(u)
              <=> (InferCalledFor(u) /\ OwnInferOutcome(u) \in {"text", "empty"})

\* Two recipients with different articles, the first fetched on the general
\* path and the second for a symbol; the summarization of the first threw and
\* the second was sent the digest of their own article.
C27_Witness ==
  /\ RunDone /\ Len(users) = 2
  /\ OwnNews(1) # <<>> /\ OwnNews(2) # <<>> /\ OwnNews(1) # OwnNews(2)
  /\ InferOutcomeFor(1, "threw")
  /\ ~EmailAttempted(1)
  /\ Len(emails) = 1
  /\ emails[1].user = 2
  /\ emails[1].newsContent = <<"digest", NewsData(OwnNews(2))>>

\* C28: a failed lookup of a recipient's symbols (no database, unknown user,
\* or an error in a lookup step) is not a failed fetch: the lookup gives the
\* empty list, getNews is called on the general path, and the recipient's
\* entry is empty only if that call threw or returned nothing, so that the
\* recipient can be summarized and sent to.
C28_LookupFailureTakesGeneralPath ==
  \A i \in 1..Len(fetchLog) :
    fetchLog[i].lookupFailed =>
      /\ fetchLog[i].path = "general"
      /\ newsForUsers[i].news
           \in { o.news : o \in { n \in NewsOutcomes(<<>>) : n.threw = fetchLog[i].threw } }

\* The lookup for the first recipient failed; they were given the general
\* feed, summarized, and their email was delivered.
C28_Witness ==
  /\ RunDone
  /\ fetchLog[1].lookupFailed /\ fetchLog[1].path = "general" /\ ~fetchLog[1].threw
  /\ HasNews(1) /\ InferOutcomeFor(1, "text") /\ HasSummary(1) /\ EmailDelivered(1)

====
